---- MODULE Spec2Model ----
(***************************************************************************)
(* Model of src/zero_conf_handler.py: the ZeroConfHandler facade over a    *)
(* multicast service-discovery engine.                                     *)
(*                                                                         *)
(* Text is modelled as a sequence of one-character strings, so that the    *)
(* suffix tests and slices of the formatters are computed, not assumed.    *)
(* None and the empty string are both falsy in the `x or default` and      *)
(* `if x:` tests of the code and are both modelled by the empty sequence;  *)
(* an absent port (None or 0, both falsy) is modelled by 0.                *)
(* An IPv4 address string is modelled by the sequence of its dot-separated *)
(* numeric fields.                                                         *)
(***************************************************************************)
EXTENDS Integers, Sequences, FiniteSets, TLC

VARIABLES
    registrations,   \* self._zeroconf_registrations: key -> list of ServiceInfo
    nextInfo,        \* identity of the next ServiceInfo object constructed
    engineAccepted,  \* ids of the ServiceInfo objects register_service accepted
    engineAsked,     \* ids of the ServiceInfo objects passed to unregister_service
    opCount,         \* number of register/unregister calls made so far
    lastOp,          \* what the last register/unregister call did
    callerPc,        \* per browse call: where the calling thread is
    mode,            \* per browse call: its block and callback arguments
    browsePc,        \* per browse call: where the background browse() thread is
    browser,         \* per browse call: the engine's ServiceBrowser
    elapsed,         \* per browse call: time.sleep(browse_timeout) has returned
    result,          \* per browse call: the list `result` (the accumulator)
    resultAvailable, \* per browse call: how often result_available.set() ran
    pending,         \* per browse call: the add_service call awaiting its resolve
    callbackLog,     \* per browse call: the callback's invocations
    returned,        \* per browse call: what the call returned to its caller
    discovered,      \* per browse call: the instances resolved before browser.cancel()
    evCount,         \* listener events the engine has delivered so far
    fmt,             \* a service type string and what normalizing it gave
    conc             \* overlapping register/unregister calls on one key

ledgerVars == <<registrations, nextInfo, engineAccepted, engineAsked, opCount, lastOp>>
browseVars == <<callerPc, mode, browsePc, browser, elapsed, result, resultAvailable,
                pending, callbackLog, returned, discovered, evCount>>
otherVars == <<fmt, conc>>
vars == <<ledgerVars, browseVars, otherVars>>

-----------------------------------------------------------------------------
(* Bounds *)

MaxOps == 3          \* register/unregister calls in one behaviour
MaxEvents == 2       \* listener events the engine delivers in one behaviour
MaxTypeLen == 6      \* characters of a service type string to normalize

-----------------------------------------------------------------------------
(* Text helpers *)

EndsWith(s, suffix) ==
    /\ Len(s) >= Len(suffix)
    /\ SubSeq(s, Len(s) - Len(suffix) + 1, Len(s)) = suffix

Dot == <<".">>
LocalDot == <<"l", "o", "c", "a", "l", ".">>

FormatServiceTypeAlwaysAppends(service_type) == service_type \o Dot \o LocalDot

\* _format_zeroconf_service_type
FormatServiceType(service_type) ==
    LET s1 == IF ~EndsWith(service_type, Dot) THEN service_type \o Dot ELSE service_type
    IN  IF ~EndsWith(s1, LocalDot) THEN s1 \o LocalDot ELSE s1

\* _format_zeroconf_name
FormatName(name, service_type) ==
    name \o Dot \o FormatServiceType(service_type)

-----------------------------------------------------------------------------
(* socket.inet_aton on the dot-separated numeric fields of an address:     *)
(* one to four fields, every field but the last one byte, the last field   *)
(* filling the remaining bytes; anything else raises OSError.              *)

Pow256(k) == 256 ^ k

InetAtonOk(a) ==
    /\ Len(a) \in 1..4
    /\ \A i \in 1..(Len(a) - 1) : a[i] \in 0..255
    /\ a[Len(a)] >= 0
    /\ a[Len(a)] < Pow256(5 - Len(a))

\* the four packed bytes, as the 32-bit big-endian number they spell
InetAton(a) ==
    LET n == Len(a)
        Head3[i \in 0..3] ==
            IF i = 0 THEN 0 ELSE Head3[i - 1] + a[i] * Pow256(4 - i)
    IN  Head3[n - 1] + a[n]

\* socket.inet_ntoa: the dotted-quad text of four packed bytes
InetNtoa(b) ==
    <<(b \div Pow256(3)) % 256, (b \div Pow256(2)) % 256, (b \div 256) % 256, b % 256>>

-----------------------------------------------------------------------------
(* Inputs of the register/unregister calls *)

T_x      == <<"_", "x">>                                  \* "_x"
T_xLocal == <<"_", "x", ".", "l", "o", "c", "a", "l", ".">>  \* "_x.local."
ServiceTypeArgs == {T_x, T_xLocal}

NameArgs == {<< >>, <<"A">>}
PortArgs == {0, 80}

AddrGood  == <<10, 0, 0, 5>>     \* "10.0.0.5"
AddrBad   == <<300, 1, 1, 1>>    \* "300.1.1.1", which inet_aton rejects
AddressArgs == {<< >>, AddrGood, AddrBad}

\* what get_interface_addresses() may yield: the usable addresses of the host
InterfaceAddressLists == {<< >>, <<AddrGood>>}

HandlerName == <<"S">>           \* self.name
DefaultPort == 8080
HandlerPort == DefaultPort       \* self.port

NoKey == << << >>, 0 >>
NoOp ==
    [op |-> "none", key |-> NoKey, outcome |-> "none", calls |-> << >>,
     bucket |-> << >>, engineFailed |-> FALSE, enumerated |-> FALSE,
     hadKey |-> FALSE, argType |-> << >>, argPort |-> 0, argAddress |-> << >>,
     built |-> << >>]

-----------------------------------------------------------------------------
(* Registration ledger: a defaultdict(list) *)

HasKey(reg, key) == key \in DOMAIN reg

\* self._zeroconf_registrations[key].append(info)
LedgerAppend(reg, key, info) ==
    IF key \in DOMAIN reg
    THEN [reg EXCEPT ![key] = Append(@, info)]
    ELSE [k \in DOMAIN reg \cup {key} |-> IF k = key THEN <<info>> ELSE reg[k]]

\* the dict left by self._zeroconf_registrations.pop(key)
LedgerWithout(reg, key) == [k \in DOMAIN reg \ {key} |-> reg[k]]

Ids(infos) == {infos[i].id : i \in 1..Len(infos)}

\* every ServiceInfo the ledger holds
LedgerInfos(reg) == UNION {{reg[k][i] : i \in 1..Len(reg[k])} : k \in DOMAIN reg}

-----------------------------------------------------------------------------
(* zeroconf_register *)

RegisterAlwaysEnumerates(address) == TRUE

\* whether the call asks get_interface_addresses(): lines 128-131
RegisterEnumerates(address) == address = << >>

\* lines 128-131
RegisterAddresses(address, ifaddrs) ==
    IF RegisterEnumerates(address) THEN ifaddrs ELSE <<address>>

LedgerRecordsFailedRegister(reg, key, info) ==
    IF key \in DOMAIN reg
    THEN [reg EXCEPT ![key] = Append(@, info)]
    ELSE [k \in DOMAIN reg \cup {key} |-> IF k = key THEN <<info>> ELSE reg[k]]

\* the ledger after register_service (or ServiceInfo) raised: line 150 is
\* skipped, lines 154-155 only log
LedgerAfterFailedRegister(reg, key, info) == reg

\* the call's result when register_service (or ServiceInfo) raises: line 154
RegisterEngineFailureOutcome == "returned"

\* the call's result when socket.inet_aton raises at line 133
RegisterConversionFailureOutcome == "raised"

zeroconf_register(service_type, name, port, address, ifaddrs, engineOk) ==
    LET name1  == IF name # << >> THEN name ELSE HandlerName
        port1  == IF port # 0 THEN port ELSE HandlerPort
        type1  == FormatServiceType(service_type)
        name2  == FormatName(name1, type1)
        key    == <<type1, port1>>
        strs   == RegisterAddresses(address, ifaddrs)
        convOk == \A i \in 1..Len(strs) : InetAtonOk(strs[i])
        info   == [id |-> nextInfo, type |-> type1, name |-> name2,
                   addresses |-> [i \in 1..Len(strs) |-> InetAton(strs[i])],
                   port |-> port1]
        op     == [NoOp EXCEPT !.op = "register", !.key = key,
                               !.enumerated = RegisterEnumerates(address),
                               !.hadKey = key \in DOMAIN registrations,
                               !.argType = service_type, !.argPort = port,
                               !.argAddress = address]
    IN  /\ opCount < MaxOps
        /\ opCount' = opCount + 1
        /\ engineAsked' = engineAsked
        /\ IF ~convOk
           THEN /\ lastOp' = [op EXCEPT !.outcome = RegisterConversionFailureOutcome]
                /\ UNCHANGED <<registrations, nextInfo, engineAccepted>>
           ELSE IF ~engineOk
           THEN /\ lastOp' = [op EXCEPT !.outcome = RegisterEngineFailureOutcome,
                                        !.engineFailed = TRUE, !.built = <<info>>]
                /\ registrations' = LedgerAfterFailedRegister(registrations, key, info)
                /\ UNCHANGED <<nextInfo, engineAccepted>>
           ELSE /\ lastOp' = [op EXCEPT !.outcome = "returned", !.bucket = <<info>>,
                                        !.built = <<info>>]
                /\ nextInfo' = nextInfo + 1
                /\ engineAccepted' = engineAccepted \cup {info.id}
                /\ registrations' = LedgerAppend(registrations, key, info)

-----------------------------------------------------------------------------
(* zeroconf_unregister *)

\* how many of the bucket's infos the loop of lines 176-177 passes to
\* unregister_service when the call for the failAt-th info raises
\* (failAt = 0: no call raises)
UnregisterCallCount(n, failAt) == IF failAt = 0 THEN n ELSE failAt

UnregisterEngineFailurePropagates == "raised"

\* the call's result when unregister_service raises: line 179
UnregisterEngineFailureOutcome == "returned"

\* indexing the defaultdict instead of testing membership
UnregisterMissingKeyCreatesBucket(reg, key) ==
    [k \in DOMAIN reg \cup {key} |-> IF k \in DOMAIN reg THEN reg[k] ELSE << >>]

\* the ledger after the early return for a key without bucket: lines 171-172
UnregisterMissingKey(reg, key) == reg

UnregisterKeyTypeRaw(service_type) == service_type

\* the service type of the key zeroconf_unregister looks up: line 168
UnregisterKeyType(service_type) == FormatServiceType(service_type)

zeroconf_unregister(service_type, port, failAt) ==
    LET port1 == IF port # 0 THEN port ELSE HandlerPort
        type1 == UnregisterKeyType(service_type)
        key   == <<type1, port1>>
        op    == [NoOp EXCEPT !.op = "unregister", !.key = key,
                              !.hadKey = key \in DOMAIN registrations,
                              !.argType = service_type, !.argPort = port]
    IN  /\ opCount < MaxOps
        /\ opCount' = opCount + 1
        /\ UNCHANGED <<nextInfo, engineAccepted>>
        /\ IF ~HasKey(registrations, key)
           THEN /\ failAt = 0
                /\ lastOp' = [op EXCEPT !.outcome = "returned"]
                /\ registrations' = UnregisterMissingKey(registrations, key)
                /\ UNCHANGED engineAsked
           ELSE IF key \notin DOMAIN registrations
           THEN \* dict.pop of a missing key raises KeyError, outside the try
                /\ failAt = 0
                /\ lastOp' = [op EXCEPT !.outcome = "raised"]
                /\ UNCHANGED <<registrations, engineAsked>>
           ELSE LET infos  == registrations[key]
                    n      == UnregisterCallCount(Len(infos), failAt)
                    called == SubSeq(infos, 1, n)
                IN  /\ failAt \in 0..Len(infos)
                    /\ registrations' = LedgerWithout(registrations, key)
                    /\ engineAsked' = engineAsked \cup Ids(called)
                    /\ lastOp' = [op EXCEPT
                           !.outcome = IF failAt = 0 THEN "returned"
                                       ELSE UnregisterEngineFailureOutcome,
                           !.engineFailed = (failAt # 0),
                           !.bucket = infos,
                           !.calls = [i \in 1..n |-> infos[i].id]]

-----------------------------------------------------------------------------
(* zeroconf_browse: one session per call.  The caller runs lines 219-284,  *)
(* the background thread runs browse() (lines 266-274) and the engine's    *)
(* browser thread calls the listener, one event at a time.                 *)

\* two calls of zeroconf_browse, which may overlap
Sessions == {1, 2}

\* the instances on the network: display name, port and packed addresses
InstanceArgs == {<<"A">>, <<"B">>}
PortOf(instance) == IF instance = <<"A">> THEN 80 ELSE 8080
AddressesOf(instance) ==
    IF instance = <<"A">> THEN <<InetAton(AddrGood)>>
    ELSE <<InetAton(AddrGood), InetAton(<<10, 0, 0, 6>>)>>

NoReturn == [kind |-> "none", value |-> << >>, isAccumulator |-> FALSE, accumulator |-> << >>]

BrowseArgsUnchecked(block, callback) == FALSE

\* lines 219-220
BrowseArgsInvalid(block, callback) == ~block /\ ~callback

\* the caller's part up to browse_thread.start(): lines 219-278
BrowseCall(s, service_type, block, callback) ==
    /\ callerPc[s] = "idle"
    /\ \A t \in Sessions : t < s => callerPc[t] # "idle"
    /\ IF BrowseArgsInvalid(block, callback)
       THEN /\ callerPc' = [callerPc EXCEPT ![s] = "raised"]
            /\ mode' = [mode EXCEPT ![s] = [type |-> << >>,
                                            block |-> block, callback |-> callback]]
            /\ returned' = [returned EXCEPT ![s] = [NoReturn EXCEPT !.kind = "ValueError"]]
            /\ UNCHANGED <<browsePc, result, resultAvailable>>
       ELSE /\ callerPc' = [callerPc EXCEPT ![s] = "started"]
            /\ mode' = [mode EXCEPT ![s] = [type |-> FormatServiceType(service_type),
                                            block |-> block, callback |-> callback]]
            /\ result' = [result EXCEPT ![s] = << >>]
            /\ resultAvailable' = [resultAvailable EXCEPT ![s] = 0]
            /\ browsePc' = [browsePc EXCEPT ![s] = "start"]
            /\ UNCHANGED returned
    /\ UNCHANGED <<browser, elapsed, pending, callbackLog, discovered, evCount>>

WaitSkipped(s) == TRUE

\* result_available.wait() lets the caller go on: line 281
WaitOver(s) == resultAvailable[s] > 0

BrowseAlwaysReturnsAccumulator(block) == TRUE

\* the list object the caller gets: lines 282 and 284
BrowseReturnsAccumulator(block) == block

\* the caller's part after browse_thread.start(): lines 280-284
BrowseReturn(s) ==
    /\ callerPc[s] = "started"
    /\ mode[s].block => WaitOver(s)
    /\ callerPc' = [callerPc EXCEPT ![s] = "returned"]
    /\ returned' = [returned EXCEPT ![s] =
           [kind |-> "list",
            value |-> IF BrowseReturnsAccumulator(mode[s].block) THEN result[s] ELSE << >>,
            isAccumulator |-> BrowseReturnsAccumulator(mode[s].block),
            accumulator |-> result[s]]]
    /\ UNCHANGED <<mode, browsePc, browser, elapsed, result, resultAvailable, pending,
                   callbackLog, discovered, evCount>>

\* zeroconf.ServiceBrowser(self._zeroconf, service_type, listener): line 268
BrowserStart(s, ok) ==
    /\ browsePc[s] = "start"
    /\ IF ok
       THEN /\ browser' = [browser EXCEPT ![s] = "active"]
            /\ browsePc' = [browsePc EXCEPT ![s] = "sleep"]
       ELSE /\ browsePc' = [browsePc EXCEPT ![s] = "raised"]
            /\ UNCHANGED browser
    /\ UNCHANGED <<callerPc, mode, elapsed, result, resultAvailable, pending,
                   callbackLog, returned, discovered, evCount>>

\* time.sleep(browse_timeout) returns: line 269
SleepReturn(s) ==
    /\ browsePc[s] = "sleep"
    /\ browsePc' = [browsePc EXCEPT ![s] = "cancel"]
    /\ elapsed' = [elapsed EXCEPT ![s] = TRUE]
    /\ UNCHANGED <<callerPc, mode, browser, result, resultAvailable, pending,
                   callbackLog, returned, discovered, evCount>>

\* where browse() goes after browser.cancel() returned: line 272
AfterCancel(callback) == IF callback THEN "callback" ELSE "set"

\* browser.cancel(): line 270
BrowserCancel(s, ok) ==
    /\ browsePc[s] = "cancel"
    /\ IF ok
       THEN /\ browser' = [browser EXCEPT ![s] = "cancelled"]
            /\ browsePc' = [browsePc EXCEPT ![s] = AfterCancel(mode[s].callback)]
       ELSE /\ browsePc' = [browsePc EXCEPT ![s] = "raised"]
            /\ UNCHANGED browser
    /\ UNCHANGED <<callerPc, mode, elapsed, result, resultAvailable, pending,
                   callbackLog, returned, discovered, evCount>>

\* the argument of the callback: line 273
CallbackArgument(s) == result[s]

\* callback(result): line 273
InvokeCallback(s, ok) ==
    /\ browsePc[s] = "callback"
    /\ callbackLog' = [callbackLog EXCEPT ![s] =
           Append(@, [by |-> "browse_thread", arg |-> CallbackArgument(s),
                      accumulator |-> result[s], browser |-> browser[s]])]
    /\ browsePc' = [browsePc EXCEPT ![s] = IF ok THEN "set" ELSE "raised"]
    /\ UNCHANGED <<callerPc, mode, browser, elapsed, result, resultAvailable, pending,
                   returned, discovered, evCount>>

\* result_available.set(): line 274
SetSignal(s) ==
    /\ browsePc[s] = "set"
    /\ resultAvailable' = [resultAvailable EXCEPT ![s] = @ + 1]
    /\ browsePc' = [browsePc EXCEPT ![s] = "done"]
    /\ UNCHANGED <<callerPc, mode, browser, elapsed, result, pending, callbackLog,
                   returned, discovered, evCount>>

-----------------------------------------------------------------------------
(* ZeroconfListener.  The engine's browser thread calls the listener for   *)
(* one event at a time; get_service_info blocks that thread for up to      *)
(* resolve_timeout and is not interrupted by browser.cancel().             *)

StripTypeKeepsDot(name, type) ==
    IF Len(type) >= Len(name) THEN << >> ELSE SubSeq(name, 1, Len(name) - Len(type))

\* info.name[: -(len(type) + 1)]: line 239
StripType(name, type) ==
    LET k == Len(type) + 1
    IN  IF k >= Len(name) THEN << >> ELSE SubSeq(name, 1, Len(name) - k)

\* to_result: lines 238-253
ToResult(info, type, address) ==
    [name |-> StripType(info.name, type), host |-> address, port |-> info.port]

ResultsOfFirstAddress(info, type) ==
    <<ToResult(info, type, InetNtoa(info.addresses[1]))>>

\* the results of one resolved instance: lines 255-256
ResultsOf(info, type) ==
    [i \in 1..Len(info.addresses) |-> ToResult(info, type, InetNtoa(info.addresses[i]))]

\* result.append(...) for each of them: line 256
Accumulate(acc, new) == acc \o new

ListenerTargetShared(s) == 1

\* the accumulator a session's listener appends to, the list its own
\* zeroconf_browse call created: lines 224 and 256
ListenerTarget(s) == s

\* add_service is called and calls get_service_info: lines 232-235
AddServiceCall(s, instance) ==
    /\ browser[s] = "active"
    /\ pending[s] = << >>
    /\ evCount < MaxEvents
    /\ evCount' = evCount + 1
    /\ pending' = [pending EXCEPT ![s] = <<instance>>]
    /\ UNCHANGED <<callerPc, mode, browsePc, browser, elapsed, result, resultAvailable,
                   callbackLog, returned, discovered>>

\* add_service goes on with the ServiceInfo it got: lines 238-256
ListenerAppend(s, info) ==
    /\ LET new == ResultsOf(info, mode[s].type)
       IN  /\ result' = [result EXCEPT ![ListenerTarget(s)] = Accumulate(@, new)]
           /\ discovered' = [discovered EXCEPT ![s] =
                  IF browser[s] = "active" THEN Append(@, pending[s][1]) ELSE @]
    /\ pending' = [pending EXCEPT ![s] = << >>]
    /\ UNCHANGED <<callerPc, mode, browsePc, browser, elapsed, resultAvailable,
                   callbackLog, returned, evCount>>

\* get_service_info returns a ServiceInfo: lines 236-256
AddServiceResolved(s) ==
    /\ pending[s] # << >>
    /\ ListenerAppend(s, [name |-> FormatName(pending[s][1], mode[s].type),
                          port |-> PortOf(pending[s][1]),
                          addresses |-> AddressesOf(pending[s][1])])

\* get_service_info(type, name) returns the ServiceInfo of that name which
\* this handler registered with the engine: lines 149 and 236-256
AddServiceResolvedRegistered(s) ==
    /\ pending[s] # << >>
    /\ \E info \in LedgerInfos(registrations) :
          /\ info.name = pending[s][1]
          /\ ListenerAppend(s, info)

\* get_service_info returns None (unknown instance, or resolve_timeout): line 236
AddServiceUnresolved(s) ==
    /\ pending[s] # << >>
    /\ pending' = [pending EXCEPT ![s] = << >>]
    /\ UNCHANGED <<callerPc, mode, browsePc, browser, elapsed, result, resultAvailable,
                   callbackLog, returned, discovered, evCount>>

\* update_service: lines 258-259
UpdateService(s) ==
    /\ browser[s] = "active"
    /\ pending[s] = << >>
    /\ evCount < MaxEvents
    /\ evCount' = evCount + 1
    /\ UNCHANGED <<callerPc, mode, browsePc, browser, elapsed, result, resultAvailable,
                   pending, callbackLog, returned, discovered>>

\* remove_service: lines 261-262
RemoveService(s) ==
    /\ browser[s] = "active"
    /\ pending[s] = << >>
    /\ evCount < MaxEvents
    /\ evCount' = evCount + 1
    /\ UNCHANGED <<callerPc, mode, browsePc, browser, elapsed, result, resultAvailable,
                   pending, callbackLog, returned, discovered>>

-----------------------------------------------------------------------------

LedgerInit ==
    /\ registrations = << >>
    /\ nextInfo = 1
    /\ engineAccepted = {}
    /\ engineAsked = {}
    /\ opCount = 0
    /\ lastOp = NoOp

BrowseInit ==
    /\ callerPc = [s \in Sessions |-> "idle"]
    /\ mode = [s \in Sessions |-> [type |-> << >>, block |-> TRUE, callback |-> FALSE]]
    /\ browsePc = [s \in Sessions |-> "none"]
    /\ browser = [s \in Sessions |-> "none"]
    /\ elapsed = [s \in Sessions |-> FALSE]
    /\ result = [s \in Sessions |-> << >>]
    /\ resultAvailable = [s \in Sessions |-> 0]
    /\ pending = [s \in Sessions |-> << >>]
    /\ callbackLog = [s \in Sessions |-> << >>]
    /\ returned = [s \in Sessions |-> NoReturn]
    /\ discovered = [s \in Sessions |-> << >>]
    /\ evCount = 0

\* the service type strings to normalize
TypeAlphabet == {".", "l", "o", "c", "a"}
FormatInputs == UNION {[1..k -> TypeAlphabet] : k \in 0..MaxTypeLen}

FmtOf(input) == [input |-> input, once |-> << >>, twice |-> << >>, step |-> 0]

\* the threads that call zeroconf_register and zeroconf_unregister at once
RegThreads == {1, 2}
UnregThreads == {1, 2}

ConcInit ==
    conc = [dict |-> 0,
            heap |-> [o \in RegThreads |-> << >>],
            lists |-> 0,
            accepted |-> {},
            asked |-> {},
            reg |-> [t \in RegThreads |-> [pc |-> "start", ref |-> 0]],
            unreg |-> [t \in UnregThreads |-> [pc |-> "start", ref |-> 0, idx |-> 0]]]

Init == LedgerInit /\ BrowseInit /\ fmt = FmtOf(<< >>) /\ ConcInit

Register ==
    /\ \E st \in ServiceTypeArgs, nm \in NameArgs, pt \in PortArgs,
          ad \in AddressArgs, ifs \in InterfaceAddressLists, ok \in BOOLEAN :
           zeroconf_register(st, nm, pt, ad, ifs, ok)
    /\ UNCHANGED <<browseVars, otherVars>>

Unregister ==
    /\ \E st \in ServiceTypeArgs, pt \in PortArgs, failAt \in 0..MaxOps :
           zeroconf_unregister(st, pt, failAt)
    /\ UNCHANGED <<browseVars, otherVars>>

LedgerNext == Register \/ Unregister

LedgerSpec == Init /\ [][LedgerNext]_vars

Call ==
    /\ \E s \in Sessions, st \in ServiceTypeArgs, b \in BOOLEAN, cb \in BOOLEAN :
           BrowseCall(s, st, b, cb)
    /\ UNCHANGED <<ledgerVars, otherVars>>

Return == (\E s \in Sessions : BrowseReturn(s)) /\ UNCHANGED <<ledgerVars, otherVars>>

StartBrowser ==
    (\E s \in Sessions, ok \in BOOLEAN : BrowserStart(s, ok)) /\ UNCHANGED <<ledgerVars, otherVars>>

Timeout == (\E s \in Sessions : SleepReturn(s)) /\ UNCHANGED <<ledgerVars, otherVars>>

CancelBrowser ==
    (\E s \in Sessions, ok \in BOOLEAN : BrowserCancel(s, ok)) /\ UNCHANGED <<ledgerVars, otherVars>>

Callback ==
    (\E s \in Sessions, ok \in BOOLEAN : InvokeCallback(s, ok)) /\ UNCHANGED <<ledgerVars, otherVars>>

Signal == (\E s \in Sessions : SetSignal(s)) /\ UNCHANGED <<ledgerVars, otherVars>>

Discovered ==
    (\E s \in Sessions, i \in InstanceArgs : AddServiceCall(s, i)) /\ UNCHANGED <<ledgerVars, otherVars>>

Resolved == (\E s \in Sessions : AddServiceResolved(s)) /\ UNCHANGED <<ledgerVars, otherVars>>

Unresolved == (\E s \in Sessions : AddServiceUnresolved(s)) /\ UNCHANGED <<ledgerVars, otherVars>>

Updated == (\E s \in Sessions : UpdateService(s)) /\ UNCHANGED <<ledgerVars, otherVars>>

Removed == (\E s \in Sessions : RemoveService(s)) /\ UNCHANGED <<ledgerVars, otherVars>>

BrowseNext ==
    \/ Call \/ Return \/ StartBrowser \/ Timeout \/ CancelBrowser \/ Callback \/ Signal
    \/ Discovered \/ Resolved \/ Unresolved \/ Updated \/ Removed

BrowseSpec == Init /\ [][BrowseNext]_vars

----------------------------------------------------------------------------
\* Normalizing a service type, once and then again on its own result.

FormatInit ==
    /\ LedgerInit /\ BrowseInit /\ ConcInit
    /\ fmt \in {FmtOf(input) : input \in FormatInputs}

\* _format_zeroconf_service_type(service_type): lines 38-43
FormatOnce ==
    /\ fmt.step = 0
    /\ fmt' = [fmt EXCEPT !.once = FormatServiceType(fmt.input), !.step = 1]
    /\ UNCHANGED <<ledgerVars, browseVars, conc>>

\* _format_zeroconf_service_type applied to the string it returned
FormatTwice ==
    /\ fmt.step = 1
    /\ fmt' = [fmt EXCEPT !.twice = FormatServiceType(fmt.once), !.step = 2]
    /\ UNCHANGED <<ledgerVars, browseVars, conc>>

FormatNext == FormatOnce \/ FormatTwice

FormatSpec == FormatInit /\ [][FormatNext]_vars

----------------------------------------------------------------------------
\* zeroconf_register and zeroconf_unregister of one key called from several
\* threads at once, statement by statement. The handler takes no lock, so
\* the statements of the calls interleave freely. The engine accepts every
\* request here. conc.dict is the list object the key maps to (0: no entry),
\* conc.heap the contents of each list object the defaultdict has made.

\* self.zeroconf.register_service(info): line 149
ConcRegisterService(t) ==
    /\ conc.reg[t].pc = "start"
    /\ conc' = [conc EXCEPT !.accepted = @ \cup {t}, !.reg[t].pc = "lookup"]

\* self._zeroconf_registrations[key], which makes the list if the key is
\* missing: line 150
ConcRegisterLookup(t) ==
    /\ conc.reg[t].pc = "lookup"
    /\ IF conc.dict = 0
          THEN conc' = [conc EXCEPT !.lists = @ + 1, !.dict = conc.lists + 1,
                                    !.reg[t] = [pc |-> "append", ref |-> conc.lists + 1]]
          ELSE conc' = [conc EXCEPT !.reg[t] = [pc |-> "append", ref |-> conc.dict]]

\* .append(info) on the list that lookup returned: line 150
ConcRegisterAppend(t) ==
    /\ conc.reg[t].pc = "append"
    /\ conc' = [conc EXCEPT !.heap[conc.reg[t].ref] = Append(@, t), !.reg[t].pc = "done"]

\* if key not in self._zeroconf_registrations: return: lines 171-172
ConcUnregisterCheck(u) ==
    /\ conc.unreg[u].pc = "start"
    /\ conc' = [conc EXCEPT !.unreg[u].pc = IF conc.dict = 0 THEN "done" ELSE "pop"]

\* self._zeroconf_registrations.pop(key), KeyError if the key has gone: line 174
ConcUnregisterPop(u) ==
    /\ conc.unreg[u].pc = "pop"
    /\ IF conc.dict = 0
          THEN conc' = [conc EXCEPT !.unreg[u].pc = "raised"]
          ELSE conc' = [conc EXCEPT !.dict = 0,
                                    !.unreg[u] = [pc |-> "loop", ref |-> conc.dict, idx |-> 1]]

\* one turn of the loop over the popped list, which reads the list by index
\* and so sees what has been appended meanwhile: lines 176-177
ConcUnregisterService(u) ==
    /\ conc.unreg[u].pc = "loop"
    /\ conc.unreg[u].idx <= Len(conc.heap[conc.unreg[u].ref])
    /\ conc' = [conc EXCEPT !.asked = @ \cup {conc.heap[conc.unreg[u].ref][conc.unreg[u].idx]},
                            !.unreg[u].idx = @ + 1]

\* the loop finds no further element and ends: line 176
ConcUnregisterLoopEnd(u) ==
    /\ conc.unreg[u].pc = "loop"
    /\ conc.unreg[u].idx > Len(conc.heap[conc.unreg[u].ref])
    /\ conc' = [conc EXCEPT !.unreg[u].pc = "done"]

ConcRegisterEngine == \E t \in RegThreads : ConcRegisterService(t) /\ UNCHANGED <<ledgerVars, browseVars, fmt>>
ConcLookup == \E t \in RegThreads : ConcRegisterLookup(t) /\ UNCHANGED <<ledgerVars, browseVars, fmt>>
ConcAppend == \E t \in RegThreads : ConcRegisterAppend(t) /\ UNCHANGED <<ledgerVars, browseVars, fmt>>
ConcCheck == \E u \in UnregThreads : ConcUnregisterCheck(u) /\ UNCHANGED <<ledgerVars, browseVars, fmt>>
ConcPop == \E u \in UnregThreads : ConcUnregisterPop(u) /\ UNCHANGED <<ledgerVars, browseVars, fmt>>
ConcWithdraw == \E u \in UnregThreads : ConcUnregisterService(u) /\ UNCHANGED <<ledgerVars, browseVars, fmt>>
ConcLoopEnd == \E u \in UnregThreads : ConcUnregisterLoopEnd(u) /\ UNCHANGED <<ledgerVars, browseVars, fmt>>

ConcNext ==
    \/ ConcRegisterEngine \/ ConcLookup \/ ConcAppend
    \/ ConcCheck \/ ConcPop \/ ConcWithdraw \/ ConcLoopEnd

ConcSpec == Init /\ [][ConcNext]_vars

----------------------------------------------------------------------------
\* Register, then browse. The handler registers services under names the
\* engine does not yet know (so that allow_name_change at line 149 renames
\* nothing), then one blocking zeroconf_browse runs; the engine announces
\* the registered services of the browsed type to the listener, each once,
\* and resolves each to the ServiceInfo that was registered.

RoundTripRegister ==
    /\ callerPc[1] = "idle"
    /\ \E st \in ServiceTypeArgs, nm \in InstanceArgs, pt \in PortArgs :
          /\ \A info \in LedgerInfos(registrations) : info.name # FormatName(nm, st)
          /\ zeroconf_register(st, nm, pt, AddrGood, << >>, TRUE)
    /\ UNCHANGED <<browseVars, otherVars>>

RoundTripCall ==
    /\ \E st \in ServiceTypeArgs : BrowseCall(1, st, TRUE, FALSE)
    /\ UNCHANGED <<ledgerVars, otherVars>>

RoundTripStartBrowser == BrowserStart(1, TRUE) /\ UNCHANGED <<ledgerVars, otherVars>>

RoundTripTimeout == SleepReturn(1) /\ UNCHANGED <<ledgerVars, otherVars>>

RoundTripCancelBrowser == BrowserCancel(1, TRUE) /\ UNCHANGED <<ledgerVars, otherVars>>

RoundTripSignal == SetSignal(1) /\ UNCHANGED <<ledgerVars, otherVars>>

RoundTripReturn == BrowseReturn(1) /\ UNCHANGED <<ledgerVars, otherVars>>

RoundTripDiscovered ==
    /\ \E info \in LedgerInfos(registrations) :
          /\ info.type = mode[1].type
          /\ \A i \in 1..Len(discovered[1]) : discovered[1][i] # info.name
          /\ AddServiceCall(1, info.name)
    /\ UNCHANGED <<ledgerVars, otherVars>>

RoundTripResolved == AddServiceResolvedRegistered(1) /\ UNCHANGED <<ledgerVars, otherVars>>

RoundTripNext ==
    \/ RoundTripRegister \/ RoundTripCall \/ RoundTripStartBrowser
    \/ RoundTripTimeout \/ RoundTripCancelBrowser \/ RoundTripSignal
    \/ RoundTripReturn \/ RoundTripDiscovered \/ RoundTripResolved

RoundTripSpec == Init /\ [][RoundTripNext]_vars

-----------------------------------------------------------------------------
(* Properties of zeroconf_browse, checked under BrowseSpec *)

IsPrefix(p, q) == Len(p) <= Len(q) /\ SubSeq(q, 1, Len(p)) = p

\* the entries that the instances resolved during the browse window yield
RECURSIVE WindowResults(_, _)
WindowResults(instances, type) ==
    IF instances = << >> THEN << >>
    ELSE ResultsOf([name |-> FormatName(Head(instances), type), port |-> PortOf(Head(instances)),
                    addresses |-> AddressesOf(Head(instances))], type)
         \o WindowResults(Tail(instances), type)

Untouched(s) ==
    /\ browsePc[s] = "none"
    /\ browser[s] = "none"
    /\ ~elapsed[s]
    /\ result[s] = << >>
    /\ resultAvailable[s] = 0
    /\ pending[s] = << >>
    /\ callbackLog[s] = << >>
    /\ discovered[s] = << >>

\* C1: a zeroconf_browse call with block=False and no callback raises
\* ValueError, and that call starts no browser and no browse thread and
\* leaves the accumulator, the completion signal and the handler's ledger as
\* they were.
C1_InvalidBrowseRaises ==
    /\ \A s \in Sessions :
           (callerPc[s] # "idle" /\ ~mode[s].block /\ ~mode[s].callback) =>
               /\ callerPc[s] = "raised"
               /\ returned[s].kind = "ValueError"
               /\ Untouched(s)
    /\ ledgerVars = <<<< >>, 1, {}, {}, 0, NoOp>>

C1_Witness ==
    \E s, t \in Sessions :
        /\ callerPc[s] = "raised"
        /\ ~mode[s].block /\ ~mode[s].callback
        /\ browser[t] = "active"
        /\ result[t] # << >>

\* C2: a blocking zeroconf_browse call has returned only if the browse
\* timeout has elapsed and the browser has been cancelled, and the list it
\* returned starts with the entries of every instance that was discovered
\* and resolved before the cancellation, in discovery order.
C2_BlockingReturnsAfterWindow ==
    \A s \in Sessions :
        (callerPc[s] = "returned" /\ mode[s].block) =>
            /\ elapsed[s]
            /\ browser[s] = "cancelled"
            /\ returned[s].kind = "list"
            /\ IsPrefix(WindowResults(discovered[s], mode[s].type), returned[s].value)

C2_Witness ==
    \E s \in Sessions :
        /\ callerPc[s] = "returned"
        /\ mode[s].block
        /\ discovered[s] = <<<<"B">>, <<"A">>>>
        /\ Len(returned[s].value) = 3

C2_WitnessEmpty ==
    \E s \in Sessions :
        callerPc[s] = "returned" /\ mode[s].block /\ returned[s].value = << >>

\* C3: whenever the background browse thread of a session has ended, the
\* session's completion signal has been set, exactly once (so that a blocked
\* caller is released), whatever the callback and the engine did.
C3_SignalSetWhenBrowseEnds ==
    \A s \in Sessions :
        browsePc[s] \in {"done", "raised"} => resultAvailable[s] = 1

\* C3, the part that holds: the signal is set at most once, only by the
\* browse thread's last step and only after the browser was cancelled.
C3_SignalSetAtMostOnce ==
    \A s \in Sessions :
        /\ resultAvailable[s] <= 1
        /\ resultAvailable[s] = 1 => (browsePc[s] = "done" /\ browser[s] = "cancelled")

\* C4: in every browse session that was given a callback, once the browse
\* thread has ended the callback has been invoked exactly once, after the
\* browser was cancelled, by the browse thread, with the accumulator.
C4_CallbackExactlyOnce ==
    \A s \in Sessions :
        (mode[s].callback /\ browsePc[s] \in {"done", "raised"}) =>
            /\ Len(callbackLog[s]) = 1
            /\ callbackLog[s][1].by = "browse_thread"
            /\ callbackLog[s][1].browser = "cancelled"
            /\ callbackLog[s][1].arg = callbackLog[s][1].accumulator

\* C4, the part that holds: the callback is invoked at most once, only
\* after the browser was cancelled, by the browse thread, with the
\* accumulator, and exactly once when browser.cancel() has returned.
C4_CallbackAfterCancel ==
    \A s \in Sessions :
        /\ Len(callbackLog[s]) <= 1
        /\ \A i \in 1..Len(callbackLog[s]) :
               /\ mode[s].callback
               /\ callbackLog[s][i].by = "browse_thread"
               /\ callbackLog[s][i].browser = "cancelled"
               /\ callbackLog[s][i].arg = callbackLog[s][i].accumulator
        /\ (mode[s].callback /\ browser[s] = "cancelled" /\ browsePc[s] # "callback")
               => Len(callbackLog[s]) = 1

\* C5: a zeroconf_browse call with block=False and a callback can return
\* whatever the browse thread has done so far, and the list it returns is
\* empty and is not the accumulator, also when the accumulator already
\* holds results.
C5_NonBlockingReturnsEmpty ==
    \A s \in Sessions :
        /\ (callerPc[s] = "started" /\ ~mode[s].block) =>
               ENABLED (BrowseReturn(s) /\ UNCHANGED <<ledgerVars, otherVars>>)
        /\ (callerPc[s] = "returned" /\ ~mode[s].block) =>
               /\ returned[s].kind = "list"
               /\ returned[s].value = << >>
               /\ ~returned[s].isAccumulator

C5_Witness ==
    \E s \in Sessions :
        /\ callerPc[s] = "returned"
        /\ ~mode[s].block
        /\ returned[s].accumulator # << >>
        /\ returned[s].value = << >>
        /\ resultAvailable[s] = 0

-----------------------------------------------------------------------------
(* Properties of zeroconf_register and zeroconf_unregister, checked under  *)
(* LedgerSpec                                                              *)

BucketOf(reg, key) == IF key \in DOMAIN reg THEN reg[key] ELSE << >>

RegisterStep == opCount' = opCount + 1 /\ lastOp'.op = "register"
UnregisterStep == opCount' = opCount + 1 /\ lastOp'.op = "unregister"

\* C6: a zeroconf_register call always returns normally, whichever step of
\* it fails (address conversion, engine registration).
C6_RegisterNeverRaises ==
    lastOp.op = "register" => lastOp.outcome = "returned"

\* C7: a successful zeroconf_register appends its advertisement to the
\* key's bucket and keeps what the bucket held, and a zeroconf_unregister of
\* a key with a bucket removes the bucket and passes each of its
\* advertisements to the engine's unregister_service, once, in order.
C7_AccumulateThenWithdrawAll ==
    [][/\ (RegisterStep /\ lastOp'.bucket # << >>) =>
              registrations' = LedgerAppend(registrations, lastOp'.key, lastOp'.bucket[1])
       /\ (UnregisterStep /\ lastOp'.hadKey) =>
              /\ lastOp'.key \notin DOMAIN registrations'
              /\ lastOp'.bucket = registrations[lastOp'.key]
              /\ lastOp'.calls = [i \in 1..Len(lastOp'.bucket) |-> lastOp'.bucket[i].id]
      ]_vars

\* C7, the part that holds: registers accumulate, and an unregister during
\* which no engine call raises withdraws the whole bucket.
C7_AccumulateThenWithdrawUnlessEngineFails ==
    [][/\ (RegisterStep /\ lastOp'.bucket # << >>) =>
              /\ BucketOf(registrations', lastOp'.key)
                     = Append(BucketOf(registrations, lastOp'.key), lastOp'.bucket[1])
              /\ \A k \in DOMAIN registrations \ {lastOp'.key} :
                     BucketOf(registrations', k) = registrations[k]
       /\ (UnregisterStep /\ lastOp'.hadKey) =>
              /\ lastOp'.key \notin DOMAIN registrations'
              /\ lastOp'.bucket = registrations[lastOp'.key]
              /\ ~lastOp'.engineFailed =>
                     lastOp'.calls = [i \in 1..Len(lastOp'.bucket) |-> lastOp'.bucket[i].id]
      ]_vars

\* C8: a zeroconf_unregister of a key that has no bucket returns normally,
\* calls unregister_service for nothing and leaves the ledger as it was.
C8_UnregisterUnknownKeyNoOp ==
    [][(UnregisterStep /\ ~lastOp'.hadKey) =>
           /\ lastOp'.outcome = "returned"
           /\ lastOp'.calls = << >>
           /\ engineAsked' = engineAsked
           /\ registrations' = registrations
      ]_vars

C8_Witness ==
    /\ lastOp.op = "unregister"
    /\ ~lastOp.hadKey
    /\ lastOp.outcome = "returned"
    /\ DOMAIN registrations # {}

\* C9: after a zeroconf_unregister of a key with a bucket, every
\* advertisement of the bucket has been passed to unregister_service.
C9_EveryAdvertisementWithdrawn ==
    (lastOp.op = "unregister" /\ lastOp.hadKey) =>
        Ids(lastOp.bucket) = {lastOp.calls[i] : i \in 1..Len(lastOp.calls)}

\* C10: a zeroconf_unregister during which unregister_service raises
\* returns normally, and the key has no bucket afterwards.
C10_UnregisterSwallowsEngineFailure ==
    (lastOp.op = "unregister" /\ lastOp.engineFailed) =>
        /\ lastOp.outcome = "returned"
        /\ lastOp.key \notin DOMAIN registrations

C10_Witness ==
    /\ lastOp.op = "unregister"
    /\ lastOp.engineFailed
    /\ Len(lastOp.bucket) = 2
    /\ lastOp.outcome = "returned"
    /\ lastOp.key \notin DOMAIN registrations


\* C11: a zeroconf_register call that is given an address does not ask
\* get_interface_addresses(), and the ServiceInfo it builds holds the packed
\* form of that one address and nothing else.
C11_ExplicitAddressNotEnumerated ==
    (lastOp.op = "register" /\ lastOp.argAddress # << >>) =>
        /\ ~lastOp.enumerated
        /\ \A i \in 1..Len(lastOp.built) :
               lastOp.built[i].addresses = <<InetAton(lastOp.argAddress)>>

C11_Witness ==
    /\ lastOp.op = "register"
    /\ lastOp.argAddress = AddrGood
    /\ lastOp.outcome = "returned"
    /\ lastOp.bucket # << >>
    /\ lastOp.bucket[1].addresses = <<InetAton(AddrGood)>>

\* C15: every ServiceInfo that zeroconf_register hands to the engine, and
\* every ServiceInfo in the ledger, has at least one address.
C15_AddressesNonEmpty ==
    /\ \A i \in 1..Len(lastOp.built) : lastOp.built[i].addresses # << >>
    /\ \A info \in LedgerInfos(registrations) : info.addresses # << >>

\* C15, the part that holds: a ServiceInfo built from an explicit address
\* has exactly one address, and one built without has as many as
\* get_interface_addresses() yielded.
C15_AddressesNonEmptyWhenExplicit ==
    \A i \in 1..Len(lastOp.built) :
        lastOp.argAddress # << >> => Len(lastOp.built[i].addresses) = 1

SameKeyArgs(op1, op2) ==
    /\ FormatServiceType(op1.argType) = FormatServiceType(op2.argType)
    /\ op1.argPort = op2.argPort

\* C17: when a successful zeroconf_register has created a bucket and the
\* next call is a zeroconf_unregister whose service type normalizes to the
\* same string and whose port argument is the same (given, or omitted in
\* both), the unregister removes that bucket and no other and passes its
\* advertisement to unregister_service.
C17_UnregisterFindsRegisteredKey ==
    [][(/\ UnregisterStep
        /\ lastOp.op = "register" /\ lastOp.bucket # << >> /\ ~lastOp.hadKey
        /\ SameKeyArgs(lastOp, lastOp')) =>
           /\ lastOp'.key = lastOp.key
           /\ lastOp'.bucket = lastOp.bucket
           /\ lastOp'.calls = <<lastOp.bucket[1].id>>
           /\ registrations' = LedgerWithout(registrations, lastOp.key)
           /\ lastOp.key \in DOMAIN registrations
      ]_vars

C17_Witness ==
    /\ lastOp.op = "unregister"
    /\ lastOp.hadKey
    /\ lastOp.argType = T_x
    /\ lastOp.argPort = 0
    /\ Len(lastOp.bucket) = 1
    /\ lastOp.bucket[1].type = T_xLocal
    /\ lastOp.bucket[1].port = DefaultPort
    /\ lastOp.calls = <<lastOp.bucket[1].id>>
    /\ DOMAIN registrations # {}

\* C18: a zeroconf_register during which address conversion, ServiceInfo or
\* register_service fails leaves the ledger as it was, and every
\* advertisement in the ledger is one the engine accepted.
C18_LedgerRecordsOnlyAccepted ==
    [][/\ (RegisterStep /\ lastOp'.bucket = << >>) => registrations' = registrations
       /\ {info.id : info \in LedgerInfos(registrations')} \subseteq engineAccepted'
       /\ \A k \in DOMAIN registrations' : registrations'[k] # << >>
      ]_vars

C18_Witness ==
    /\ lastOp.op = "register"
    /\ lastOp.engineFailed
    /\ lastOp.outcome = "returned"
    /\ ~lastOp.hadKey
    /\ lastOp.key \notin DOMAIN registrations
    /\ DOMAIN registrations # {}

\* C12: normalizing a service type is idempotent, and the normalized form
\* always ends with "local.": whatever the input string, the first result
\* ends with "local." and normalizing that result gives it back unchanged.
C12_FormatIdempotent ==
    /\ fmt.step >= 1 => EndsWith(fmt.once, LocalDot)
    /\ fmt.step = 2 => fmt.twice = fmt.once

\* "local" was normalized to "local." and normalizing again changed nothing
C12_Witness ==
    /\ fmt.step = 2
    /\ fmt.input = <<"l", "o", "c", "a", "l">>
    /\ fmt.once = <<"l", "o", "c", "a", "l", ".">>
    /\ fmt.twice = fmt.once

\* every overlapping call has run to its end, one way or another
ConcAllDone ==
    /\ \A t \in RegThreads : conc.reg[t].pc = "done"
    /\ \A u \in UnregThreads : conc.unreg[u].pc \in {"done", "raised"}

\* what the ledger records for the key
ConcLedger ==
    IF conc.dict = 0 THEN {}
    ELSE {conc.heap[conc.dict][i] : i \in 1..Len(conc.heap[conc.dict])}

\* C19: when register and unregister calls on one key overlap, the ledger
\* stays consistent: once they have all ended, every advertisement the
\* engine accepted and was not asked to withdraw is still in the ledger.
C19_ConcurrentLedgerConsistent ==
    ConcAllDone => (conc.accepted \ conc.asked) \subseteq ConcLedger

\* C19, second half: no overlapping unregister call raises.
C19_ConcurrentUnregisterNeverRaises ==
    \A u \in UnregThreads : conc.unreg[u].pc # "raised"

\* everything that belongs to one zeroconf_browse call
SessionState(s) ==
    <<callerPc[s], mode[s], browsePc[s], browser[s], elapsed[s], result[s],
      resultAvailable[s], pending[s], callbackLog[s], returned[s], discovered[s]>>

\* C14: concurrent zeroconf_browse calls are independent. No step changes
\* the state of two sessions; a session's accumulator grows only when its
\* own listener's resolve comes back, its signal is set only by its own
\* browse thread, its callback is invoked only by its own browse thread,
\* and its blocked caller goes on only once its own signal is set.
C14_BrowseSessionsIndependent ==
    [][\A s \in Sessions :
          /\ \A t \in Sessions \ {s} :
                 SessionState(s)' # SessionState(s) => SessionState(t)' = SessionState(t)
          /\ result'[s] # result[s] => (pending[s] # << >> /\ pending'[s] = << >>)
          /\ resultAvailable'[s] # resultAvailable[s] =>
                 (browsePc[s] = "set" /\ browsePc'[s] = "done")
          /\ callbackLog'[s] # callbackLog[s] => browsePc[s] = "callback"
          /\ (callerPc[s] = "started" /\ callerPc'[s] = "returned" /\ mode[s].block) =>
                 resultAvailable[s] > 0
      ]_vars

\* the first call has returned its results while the second, started before
\* that, is still listening with an empty accumulator and a blocked caller
C14_Witness ==
    /\ callerPc[1] = "returned" /\ mode[1].block /\ returned[1].value # << >>
    /\ callerPc[2] = "started" /\ mode[2].block /\ browser[2] = "active"
    /\ result[2] = << >> /\ resultAvailable[2] = 0

\* C16: the accumulator changes only by add_service appending one result
\* per address of a resolved instance. An event (instance discovered,
\* updated or removed) and a resolve that gives nothing leave every
\* accumulator as it is; a resolve that gives k addresses appends exactly k
\* results, one per address in order.
C16_AccumulatorGrowsOnlyByResolve ==
    [][/\ (Updated \/ Removed \/ Unresolved) => result' = result
       /\ evCount' # evCount => result' = result
       /\ \A s \in Sessions :
             result'[s] # result[s] =>
                /\ pending[s] # << >> /\ pending'[s] = << >>
                /\ LET addresses == AddressesOf(pending[s][1])
                       k == Len(addresses)
                   IN  /\ Len(result'[s]) = Len(result[s]) + k
                       /\ IsPrefix(result[s], result'[s])
                       /\ \A i \in 1..k :
                              result'[s][Len(result[s]) + i].host = InetNtoa(addresses[i])
      ]_vars

\* an instance with two addresses was resolved and gave two results, and one
\* more event was delivered that added nothing
C16_Witness ==
    /\ evCount = 2
    /\ \A s \in Sessions : pending[s] = << >>
    /\ \E s \in Sessions :
          /\ discovered[s] = <<<<"B">>>>
          /\ Len(result[s]) = 2
          /\ result[s][1].host # result[s][2].host

\* the caller of session s has been handed the accumulator
Delivered(s) ==
    \/ callbackLog[s] # << >>
    \/ callerPc[s] = "returned" /\ mode[s].block

\* C20: the delivered result list is final. Once the callback has been
\* invoked or the blocking call has returned, the accumulator is never
\* appended to again.
C20_DeliveredListFinal ==
    [][\A s \in Sessions : Delivered(s) => result'[s] = result[s]]_vars

\* C20, what does hold: after delivery the accumulator is appended to at
\* most by the one add_service that began before the browser was cancelled.
C20_OnlyStragglerAppendsAfterDelivery ==
    [][\A s \in Sessions :
          (Delivered(s) /\ result'[s] # result[s]) =>
              /\ browser[s] = "cancelled"
              /\ pending[s] # << >> /\ pending'[s] = << >>
      ]_vars

\* C13: register, then browse. When the blocking browse returns, the list
\* holds, for every registered service that was announced and resolved
\* within the window, an entry whose name is the name the service was
\* registered under (the instance name without ".<service type>") and
\* whose port is the registered port.
C13_RoundTrip ==
    (callerPc[1] = "returned" /\ returned[1].kind = "list") =>
        \A info \in LedgerInfos(registrations) :
            (\E j \in 1..Len(discovered[1]) : discovered[1][j] = info.name) =>
                \E i \in 1..Len(returned[1].value) :
                    LET e == returned[1].value[i]
                    IN  /\ e.name \in InstanceArgs
                        /\ FormatName(e.name, mode[1].type) = info.name
                        /\ e.port = info.port

\* "A" on port 80 and "B" on the default port 8080 were registered, both
\* were announced and resolved, and the browse returned the two of them
C13_Witness ==
    /\ callerPc[1] = "returned"
    /\ Len(returned[1].value) = 2
    /\ \E i, j \in 1..2 :
          /\ returned[1].value[i].name = <<"A">> /\ returned[1].value[i].port = 80
          /\ returned[1].value[j].name = <<"B">> /\ returned[1].value[j].port = DefaultPort
====
